---- MODULE Spec2Model ----
(***************************************************************************)
(* State-machine model of the sample vehicle app (app/src/main.py):        *)
(* SampleApp subscribes to four vehicle signals, logs each change,         *)
(* republishes it on a fixed topic and answers get-requests for the same   *)
(* signals.  Handlers are coroutines on one asyncio loop; every `await` is *)
(* a suspension point, so a handler invocation is modelled as a record     *)
(* with a program counter and each action runs one invocation from a       *)
(* resumption to its next await.                                           *)
(*                                                                         *)
(* Signal values are floats; a value is held as an integer number of       *)
(* halves (85 is 42.5, -1 is -0.5), and str()/json.dumps of a float is     *)
(* modelled by PyFloatStr.                                                 *)
(***************************************************************************)
EXTENDS Integers, Sequences, FiniteSets, TLC

VARIABLES
    startPc,    \* number of subscribe calls on_start has completed (0..4)
    subs,       \* subscriptions registered with the broker, in order
    broker,     \* the data broker's current value of every signal
    nUpdates,   \* number of broker updates so far
    notifQ,     \* change notifications the broker has sent, not yet dispatched
    inv,        \* handler invocations, in the order they were started
    attempts,   \* publish_event calls issued: per invocation, in order
    published,  \* publish_event calls that completed
    files,      \* log file name -> lines written
    errors,     \* exceptions that left a handler
    loop        \* the asyncio event loop: "running" or "stopped"

vars == <<startPc, subs, broker, nUpdates, notifQ, inv, attempts, published,
          files, errors, loop>>

----------------------------------------------------------------------------
(* Bounds of the model *)

MaxEvents == 2      \* inbound events (requests and broker updates) in one run
MaxInv == 2         \* handler invocations started in one run

\* the values one broker update sets (floats in halves; every data point
\* starts at 0.0): speed 42.5, speed -0.5, or the three axes 1.0, -0.5, 9.5
Samples ==
    { [s \in {"Vehicle.Speed"} |-> 85],
      [s \in {"Vehicle.Speed"} |-> -1],
      [s \in {"Vehicle.Acceleration.Longitudinal", "Vehicle.Acceleration.Lateral",
              "Vehicle.Acceleration.Vertical"} |->
          CASE s = "Vehicle.Acceleration.Longitudinal" -> 2
            [] s = "Vehicle.Acceleration.Lateral" -> -1
            [] OTHER -> 19] }

\* request payloads (opaque strings)
Payloads == {"", "{\"reset\": true}"}

----------------------------------------------------------------------------
(* Module-level constants of main.py *)

LOG_PATH == "logs/vehicle/app.log"

SPEED_LOGGER_NAME == "vehicle/speed"
LONGI_ACCEL_LOGGER_NAME == "vehicle/acceleration_longitudinal"
LAT_ACCEL_LOGGER_NAME == "vehicle/acceleration_lateral"
VER_ACCEL_LOGGER_NAME == "vehicle/acceleration_vertical"

GET_SPEED_REQUEST_TOPIC == "sampleapp/getSpeed"
GET_SPEED_RESPONSE_TOPIC == "sampleapp/getSpeed/response"
DATABROKER_SPEED_SUBSCRIPTION_TOPIC == "sampleapp/currentSpeed"

GET_LONGI_ACCEL_REQUEST_TOPIC == "sampleapp/getLongitudinalAccel"
GET_LONGI_ACCEL_RESPONSE_TOPIC == "sampleapp/getLongitudinalAccel/response"
DATABROKER_LONGI_ACCEL_SUBSCRIPTION_TOPIC == "sampleapp/currentLongitudinalAccel"

GET_LAT_ACCEL_REQUEST_TOPIC == "sampleapp/getLateralAccel"
GET_LAT_ACCEL_RESPONSE_TOPIC == "sampleapp/getLateralAccel/response"
DATABROKER_LAT_ACCEL_SUBSCRIPTION_TOPIC == "sampleapp/currentLateralAccel"

GET_VER_ACCEL_REQUEST_TOPIC == "sampleapp/getVerticalAccel"
GET_VER_ACCEL_RESPONSE_TOPIC == "sampleapp/getVerticalAccel/response"
DATABROKER_VER_ACCEL_SUBSCRIPTION_TOPIC == "sampleapp/currentVerticalAccel"

\* the data points of the vehicle model the app uses
Speed == "Vehicle.Speed"
Longitudinal == "Vehicle.Acceleration.Longitudinal"
Lateral == "Vehicle.Acceleration.Lateral"
Vertical == "Vehicle.Acceleration.Vertical"

Signals == {Speed, Longitudinal, Lateral, Vertical}
AccelSignals == {Longitudinal, Lateral, Vertical}

----------------------------------------------------------------------------
(* Formatting *)

\* str(v) of a Python float v (also what "%s" % v, f"{v}" and json.dumps(v)
\* give), v held in halves
PyFloatStr(v) ==
    LET a == IF v < 0 THEN -v ELSE v
    IN  (IF v < 0 THEN "-" ELSE "") \o ToString(a \div 2) \o "."
        \o (IF a % 2 = 1 THEN "5" ELSE "0")

\* json.dumps({key: v}) for a float v
JsonDumpsValue(key, v) == "{\"" \o key \o "\": " \o PyFloatStr(v) \o "}"

\* json.dumps({"result": {"status": status, "message": message}})
JsonDumpsResult(status, message) ==
    "{\"result\": {\"status\": " \o ToString(status) \o ", \"message\": \""
    \o message \o "\"}}"

----------------------------------------------------------------------------
(* Loggers: setup_accel_logger gives every logger a handler on LOG_PATH *)

setup_accel_logger(logger_name) == [name |-> logger_name, filename |-> LOG_PATH]

SpeedLogger == setup_accel_logger(SPEED_LOGGER_NAME)
LongiAccelLogger == setup_accel_logger(LONGI_ACCEL_LOGGER_NAME)
LatAccelLogger == setup_accel_logger(LAT_ACCEL_LOGGER_NAME)
VerAccelLogger == setup_accel_logger(VER_ACCEL_LOGGER_NAME)

LogFiles == {LOG_PATH}

\* logger.info(message): one line "<asctime> [<name>]- <message>" appended to
\* the logger's file (asctime is not modelled; i is the writing invocation)
LogInfo(fs, lg, message, i) ==
    [fs EXCEPT ![lg.filename] =
        Append(@, [name |-> lg.name, message |-> message, inv |-> i])]

----------------------------------------------------------------------------
(* The handlers of SampleApp, as the effects each one issues *)

\* a publish_event(topic, payload) call
Publish(topic, payload) == [topic |-> topic, payload |-> payload]

\* on_speed_change: the log call and the publish, for the value read
\* variant: the log call comes after the awaited publish
SpeedLogs_Late(v) == << >>

SpeedLogs(v) ==
    << [logger |-> SpeedLogger, message |-> "Vehicle speed: " \o PyFloatStr(v)] >>

\* variant: the publish goes to a topic copied from the handler below
SpeedPublishes_WrongTopic(v) ==
    << Publish(DATABROKER_LONGI_ACCEL_SUBSCRIPTION_TOPIC, JsonDumpsValue("speed", v)) >>

SpeedPublishes(v) ==
    << Publish(DATABROKER_SPEED_SUBSCRIPTION_TOPIC, JsonDumpsValue("speed", v)) >>

\* variant: the relay numbers its log lines with a counter it keeps from one
\* invocation to the next
AccelLogs_Counted(l, a, vt) ==
    << [logger |-> LongiAccelLogger,
        message |-> "Vehicle longitudinal acceleration #" \o ToString(Len(inv) + 1)
                        \o ": " \o PyFloatStr(l)],
       [logger |-> LatAccelLogger,
        message |-> "Vehicle lateral acceleration: " \o PyFloatStr(a)],
       [logger |-> VerAccelLogger,
        message |-> "Vehicle vertical acceleration: " \o PyFloatStr(vt)] >>

\* on_accel_change: the three log calls, in program order
AccelLogs(l, a, vt) ==
    << [logger |-> LongiAccelLogger,
        message |-> "Vehicle longitudinal acceleration: " \o PyFloatStr(l)],
       [logger |-> LatAccelLogger,
        message |-> "Vehicle lateral acceleration: " \o PyFloatStr(a)],
       [logger |-> VerAccelLogger,
        message |-> "Vehicle vertical acceleration: " \o PyFloatStr(vt)] >>

\* variant: the lateral and the vertical publish carry each other's value
AccelPublishes_Swapped(l, a, vt) ==
    << Publish(DATABROKER_LONGI_ACCEL_SUBSCRIPTION_TOPIC,
               JsonDumpsValue("longitudinal_acceleration", l)),
       Publish(DATABROKER_LAT_ACCEL_SUBSCRIPTION_TOPIC,
               JsonDumpsValue("lateral_acceleration", vt)),
       Publish(DATABROKER_VER_ACCEL_SUBSCRIPTION_TOPIC,
               JsonDumpsValue("vertical_acceleration", a)) >>

\* on_accel_change: the three awaited publishes, in program order
AccelPublishes(l, a, vt) ==
    << Publish(DATABROKER_LONGI_ACCEL_SUBSCRIPTION_TOPIC,
               JsonDumpsValue("longitudinal_acceleration", l)),
       Publish(DATABROKER_LAT_ACCEL_SUBSCRIPTION_TOPIC,
               JsonDumpsValue("lateral_acceleration", a)),
       Publish(DATABROKER_VER_ACCEL_SUBSCRIPTION_TOPIC,
               JsonDumpsValue("vertical_acceleration", vt)) >>

\* the four request handlers: the topic @subscribe_topic binds, the data point
\* fetched, the topic of the response and the text before the value
on_get_speed_request_received ==
    [name |-> "on_get_speed_request_received",
     topic |-> GET_SPEED_REQUEST_TOPIC, signal |-> Speed,
     response |-> GET_SPEED_RESPONSE_TOPIC, text |-> "Speed = "]

on_get_longi_accel_request_received ==
    [name |-> "on_get_longi_accel_request_received",
     topic |-> GET_LONGI_ACCEL_REQUEST_TOPIC, signal |-> Longitudinal,
     response |-> GET_LONGI_ACCEL_RESPONSE_TOPIC, text |-> "Longi Acceleration = "]

\* variant: the message text is the one of the longitudinal handler
on_get_lat_accel_request_received_Copied ==
    [name |-> "on_get_lat_accel_request_received",
     topic |-> GET_LAT_ACCEL_REQUEST_TOPIC, signal |-> Lateral,
     response |-> GET_LAT_ACCEL_RESPONSE_TOPIC, text |-> "Longi Acceleration = "]

on_get_lat_accel_request_received ==
    [name |-> "on_get_lat_accel_request_received",
     topic |-> GET_LAT_ACCEL_REQUEST_TOPIC, signal |-> Lateral,
     response |-> GET_LAT_ACCEL_RESPONSE_TOPIC, text |-> "LAT Acceleration = "]

\* variant: the response goes to the topic of the vertical subscription relay
on_get_ver_accel_request_received_Copied ==
    [name |-> "on_get_ver_accel_request_received",
     topic |-> GET_VER_ACCEL_REQUEST_TOPIC, signal |-> Vertical,
     response |-> DATABROKER_VER_ACCEL_SUBSCRIPTION_TOPIC,
     text |-> "Vertical Acceleration = "]

on_get_ver_accel_request_received ==
    [name |-> "on_get_ver_accel_request_received",
     topic |-> GET_VER_ACCEL_REQUEST_TOPIC, signal |-> Vertical,
     response |-> GET_VER_ACCEL_RESPONSE_TOPIC, text |-> "Vertical Acceleration = "]

RequestHandlers ==
    {on_get_speed_request_received, on_get_longi_accel_request_received,
     on_get_lat_accel_request_received, on_get_ver_accel_request_received}

RequestTopics == {h.topic : h \in RequestHandlers}

\* the handler @subscribe_topic registered for a request topic
HandlerOfTopic(t) == CHOOSE h \in RequestHandlers : h.topic = t

HandlerNamed(n) == CHOOSE h \in RequestHandlers : h.name = n

\* variant: a negative value is answered with status 1
ResponsePublishes_StatusFromValue(h, v, data) ==
    << Publish(h.response,
               JsonDumpsResult(IF v < 0 THEN 1 ELSE 0, h.text \o PyFloatStr(v))) >>

\* variant: the message repeats the request's data
ResponsePublishes_EchoesData(h, v, data) ==
    << Publish(h.response,
               JsonDumpsResult(0, h.text \o PyFloatStr(v) \o " " \o data)) >>

\* variant: the response is published a second time
ResponsePublishes_Twice(h, v, data) ==
    << Publish(h.response, JsonDumpsResult(0, h.text \o PyFloatStr(v))),
       Publish(h.response, JsonDumpsResult(0, h.text \o PyFloatStr(v))) >>

\* a request handler's publish, for the fetched value v and the request's data
ResponsePublishes(h, v, data) ==
    << Publish(h.response, JsonDumpsResult(0, h.text \o PyFloatStr(v))) >>

----------------------------------------------------------------------------
(* Handler invocations *)

NoData == [s \in {} |-> 0]

\* the publishes invocation r makes, in order, from its local variables
PublishesOf(r) ==
    CASE r.handler = "on_speed_change" -> SpeedPublishes(r.local[Speed])
      [] r.handler = "on_accel_change" ->
            AccelPublishes(r.local[Longitudinal], r.local[Lateral], r.local[Vertical])
      [] OTHER -> ResponsePublishes(HandlerNamed(r.handler),
                                    r.local[HandlerNamed(r.handler).signal], r.payload)

\* the publish_event call invocation i issues as its k-th
Issue(att, r, k, i) ==
    LET p == [topic |-> PublishesOf(r)[k].topic,
              payload |-> PublishesOf(r)[k].payload, inv |-> i, k |-> k]
    IN  IF i > Len(att) THEN Append(att, << p >>)
        ELSE [att EXCEPT ![i] = Append(@, p)]

RECURSIVE WriteLogs(_, _, _)
WriteLogs(fs, lines, i) ==
    IF lines = << >> THEN fs
    ELSE WriteLogs(LogInfo(fs, Head(lines).logger, Head(lines).message, i),
                   Tail(lines), i)

\* the exception that leaves invocation i
Raise(errs, i, kind) == errs \cup {[inv |-> i, kind |-> kind]}

----------------------------------------------------------------------------
(* The state machine *)

\* the subscribe calls of on_start, in program order
OnStartSubscriptions ==
    << [signal |-> Speed,        callback |-> "on_speed_change"],
       [signal |-> Longitudinal, callback |-> "on_accel_change"],
       [signal |-> Lateral,      callback |-> "on_accel_change"],
       [signal |-> Vertical,     callback |-> "on_accel_change"] >>

\* value a read of a data point that a notification does not carry yields,
\* when the read does not raise: the default float 0.0
DefaultValue == 0

\* what a read of an absent data point does (the reply class is the SDK's)
AbsentOutcomes == {"raise", "default"}

\* the data points a subscription's notification carries: the one subscribed
\* to, alone or with the others of its branch of the vehicle model
Carried(signal) ==
    IF signal \in AccelSignals THEN {{signal}, AccelSignals} ELSE {{signal}}

\* module import to SampleApp(vehicle): nothing subscribed, nothing sent
Init ==
    /\ startPc = 0
    /\ subs = << >>
    /\ broker = [s \in Signals |-> 0]
    /\ nUpdates = 0
    /\ notifQ = << >>
    /\ inv = << >>
    /\ attempts = << >>
    /\ published = {}
    /\ files = [f \in LogFiles |-> << >>]
    /\ errors = {}
    /\ loop = "running"

\* on_start, from one await to the next: the next subscribe call completes
OnStart ==
    /\ loop = "running"
    /\ startPc < Len(OnStartSubscriptions)
    /\ startPc' = startPc + 1
    /\ subs' = Append(subs, OnStartSubscriptions[startPc + 1])
    /\ UNCHANGED <<broker, nUpdates, notifQ, inv, attempts, published, files,
                   errors, loop>>

\* number of requests received so far
NumRequests == Cardinality({i \in 1..Len(inv) : inv[i].upd = 0})

\* the notifications one broker update sends: one per subscription on a
\* changed data point, in subscription order, each with the values (of the
\* data points it may carry) at the time of the update
RECURSIVE Notifications(_, _, _, _)
Notifications(ss, changed, b, u) ==
    IF ss = << >> THEN << >>
    ELSE LET sub == Head(ss)
             rest == Notifications(Tail(ss), changed, b, u)
         IN  IF sub.signal \in changed
             THEN << [callback |-> sub.callback, signal |-> sub.signal,
                      values |-> [s \in UNION Carried(sub.signal) |-> b[s]],
                      upd |-> u] >> \o rest
             ELSE rest

\* the broker sets new values for some data points and notifies (followed
\* from the moment on_start has returned)
BrokerUpdate ==
    /\ loop = "running"
    /\ startPc = Len(OnStartSubscriptions)
    /\ nUpdates + NumRequests < MaxEvents
    /\ \E f \in Samples :
         LET b == [s \in Signals |-> IF s \in DOMAIN f THEN f[s] ELSE broker[s]]
         IN  /\ broker' = b
             /\ notifQ' = notifQ \o Notifications(subs, DOMAIN f, b, nUpdates + 1)
    /\ nUpdates' = nUpdates + 1
    /\ UNCHANGED <<startPc, subs, inv, attempts, published, files, errors, loop>>

\* the DataPointReply a notification hands to the callback: the values of
\* the data points it carries
Reply(n, carried) == [s \in carried |-> n.values[s]]

\* a new invocation record: the handler and where it is suspended, its
\* argument (a notification's reply, or a request's topic and payload), its
\* local variables, the broker update that caused it (0 for a request) and
\* the number of the publish it awaits
Invocation(handler, pc, data, topic, payload, local, upd) ==
    [handler |-> handler, pc |-> pc, data |-> data, topic |-> topic,
     payload |-> payload, local |-> local, upd |-> upd,
     k |-> IF pc = "await_publish" THEN 1 ELSE 0]

\* on_speed_change up to its await: read, log, issue the publish
DeliverSpeed ==
    /\ loop = "running"
    /\ notifQ # << >>
    /\ Len(inv) < MaxInv
    /\ Head(notifQ).callback = "on_speed_change"
    /\ LET n == Head(notifQ)
           i == Len(inv) + 1
           data == Reply(n, {Speed})
           r == Invocation("on_speed_change", "await_publish", data, "", "",
                           [s \in {Speed} |-> data[Speed]], n.upd)
       IN  /\ inv' = Append(inv, r)
           /\ files' = WriteLogs(files, SpeedLogs(r.local[Speed]), i)
           /\ attempts' = Issue(attempts, r, 1, i)
    /\ notifQ' = Tail(notifQ)
    /\ UNCHANGED <<startPc, subs, broker, nUpdates, published, errors, loop>>

\* variant: the three publishes are issued together (as with asyncio.gather)
DeliverAccel_Gather ==
    /\ loop = "running"
    /\ notifQ # << >>
    /\ Len(inv) < MaxInv
    /\ Head(notifQ).callback = "on_accel_change"
    /\ LET n == Head(notifQ)
           i == Len(inv) + 1
           data == Reply(n, AccelSignals)
           r == Invocation("on_accel_change", "await_publish", data, "", "",
                           [s \in AccelSignals |-> data[s]], n.upd)
       IN  /\ inv' = Append(inv, r)
           /\ files' = WriteLogs(files,
                  AccelLogs(r.local[Longitudinal], r.local[Lateral],
                            r.local[Vertical]), i)
           /\ attempts' = Issue(Issue(Issue(attempts, r, 1, i), r, 2, i), r, 3, i)
    /\ notifQ' = Tail(notifQ)
    /\ UNCHANGED <<startPc, subs, broker, nUpdates, published, errors, loop>>

\* on_accel_change up to its first await: three reads, three log lines, the
\* first publish issued; a read of an absent data point may raise
DeliverAccel ==
    /\ loop = "running"
    /\ notifQ # << >>
    /\ Len(inv) < MaxInv
    /\ Head(notifQ).callback = "on_accel_change"
    /\ LET n == Head(notifQ)
           i == Len(inv) + 1
       IN  \E carried \in Carried(n.signal) : \E absent \in AbsentOutcomes :
             LET data == Reply(n, carried) IN
             IF AccelSignals \subseteq DOMAIN data \/ absent = "default"
             THEN LET r == Invocation("on_accel_change", "await_publish", data, "", "",
                             [s \in AccelSignals |->
                                 IF s \in DOMAIN data THEN data[s]
                                 ELSE DefaultValue], n.upd)
                  IN  /\ inv' = Append(inv, r)
                      /\ files' = WriteLogs(files,
                             AccelLogs(r.local[Longitudinal], r.local[Lateral],
                                       r.local[Vertical]), i)
                      /\ attempts' = Issue(attempts, r, 1, i)
                      /\ errors' = errors
             ELSE /\ inv' = Append(inv, Invocation("on_accel_change", "failed",
                                                   data, "", "", NoData, n.upd))
                  /\ errors' = Raise(errors, i, "read")
                  /\ attempts' = Append(attempts, << >>)
                  /\ files' = files
    /\ notifQ' = Tail(notifQ)
    /\ UNCHANGED <<startPc, subs, broker, nUpdates, published, loop>>

\* a message arrives on a request topic: the handler logs it at debug level
\* and issues the fetch
Request ==
    /\ loop = "running"
    /\ startPc = Len(OnStartSubscriptions)
    /\ nUpdates + NumRequests < MaxEvents
    /\ Len(inv) < MaxInv
    /\ \E t \in RequestTopics : \E data \in Payloads :
         inv' = Append(inv, Invocation(HandlerOfTopic(t).name, "await_get",
                                       NoData, t, data, NoData, 0))
    /\ attempts' = Append(attempts, << >>)
    /\ UNCHANGED <<startPc, subs, broker, nUpdates, notifQ, published, files,
                   errors, loop>>

\* variant: the handler answers from the value of the last notification it
\* has handled for the data point (0.0 before the first one)
GetReturns_LastNotified ==
    /\ loop = "running"
    /\ \E i \in 1..Len(inv) :
         /\ inv[i].pc = "await_get"
         /\ LET sig == HandlerNamed(inv[i].handler).signal
                seen == {j \in 1..Len(inv) : sig \in DOMAIN inv[j].data}
                last == CHOOSE j \in seen : \A m \in seen : m <= j
                r == [inv[i] EXCEPT !.pc = "await_publish", !.k = 1,
                        !.local = [s \in {sig} |->
                            IF seen = {} THEN 0 ELSE inv[last].data[s]]]
            IN  /\ inv' = [inv EXCEPT ![i] = r]
                /\ attempts' = Issue(attempts, r, 1, i)
    /\ UNCHANGED <<startPc, subs, broker, nUpdates, notifQ, published, files,
                   errors, loop>>

\* the awaited get() returns the broker's current value: the handler issues
\* its publish
GetReturns ==
    /\ loop = "running"
    /\ \E i \in 1..Len(inv) :
         /\ inv[i].pc = "await_get"
         /\ LET sig == HandlerNamed(inv[i].handler).signal
                r == [inv[i] EXCEPT !.pc = "await_publish", !.k = 1,
                                    !.local = [s \in {sig} |-> broker[s]]]
            IN  /\ inv' = [inv EXCEPT ![i] = r]
                /\ attempts' = Issue(attempts, r, 1, i)
    /\ UNCHANGED <<startPc, subs, broker, nUpdates, notifQ, published, files,
                   errors, loop>>

\* variant: the handler catches the exception and answers with status 1
GetFails_Answers ==
    /\ loop = "running"
    /\ \E i \in 1..Len(inv) :
         /\ inv[i].pc = "await_get"
         /\ inv' = [inv EXCEPT ![i].pc = "failed"]
         /\ attempts' = [attempts EXCEPT ![i] =
                Append(@, [topic |-> HandlerNamed(inv[i].handler).response,
                           payload |-> JsonDumpsResult(1, "error"),
                           inv |-> i, k |-> 1])]
    /\ UNCHANGED <<startPc, subs, broker, nUpdates, notifQ, published, files,
                   errors, loop>>

\* the awaited get() raises: the exception leaves the handler
GetFails ==
    /\ loop = "running"
    /\ \E i \in 1..Len(inv) :
         /\ inv[i].pc = "await_get"
         /\ inv' = [inv EXCEPT ![i].pc = "failed"]
         /\ errors' = Raise(errors, i, "get")
    /\ UNCHANGED <<startPc, subs, broker, nUpdates, notifQ, attempts, published,
                   files, loop>>

\* what a handler does when its k-th awaited publish has completed
AfterPublish(r) ==
    IF r.k < Len(PublishesOf(r))
    THEN [r EXCEPT !.k = r.k + 1]
    ELSE [r EXCEPT !.pc = "done"]

\* variant: the handler catches the exception of a publish and goes on
AfterPublishFailure_Caught(r) ==
    IF r.k < Len(PublishesOf(r))
    THEN [r EXCEPT !.k = r.k + 1]
    ELSE [r EXCEPT !.pc = "done"]

\* what a handler does when its k-th awaited publish raises: nothing catches it
AfterPublishFailure(r) == [r EXCEPT !.pc = "failed"]

\* variant: the publishes of all suspended handlers complete together and
\* the handlers run on side by side
PublishCompletes_Batch ==
    /\ loop = "running"
    /\ \E i \in 1..Len(inv) : inv[i].pc = "await_publish"
    /\ published' = published \cup
           {[topic |-> PublishesOf(inv[i])[inv[i].k].topic,
             payload |-> PublishesOf(inv[i])[inv[i].k].payload,
             inv |-> i, k |-> inv[i].k] :
               i \in {j \in 1..Len(inv) : inv[j].pc = "await_publish"}}
    /\ inv' = [i \in 1..Len(inv) |->
                 IF inv[i].pc = "await_publish" THEN AfterPublish(inv[i]) ELSE inv[i]]
    /\ attempts' = [i \in 1..Len(inv) |->
                 IF inv[i].pc = "await_publish" /\ AfterPublish(inv[i]).pc = "await_publish"
                 THEN Append(attempts[i],
                        [topic |-> PublishesOf(inv[i])[inv[i].k + 1].topic,
                         payload |-> PublishesOf(inv[i])[inv[i].k + 1].payload,
                         inv |-> i, k |-> inv[i].k + 1])
                 ELSE attempts[i]]
    /\ UNCHANGED <<startPc, subs, broker, nUpdates, notifQ, files, errors, loop>>

\* variant: handlers suspended at a publish are still resumed after LOOP.stop
PublishCompletes_Drains ==
    \E i \in 1..Len(inv) :
         /\ inv[i].pc = "await_publish"
         /\ LET r == AfterPublish(inv[i])
            IN  /\ published' = published \cup
                        {[topic |-> PublishesOf(inv[i])[inv[i].k].topic,
                          payload |-> PublishesOf(inv[i])[inv[i].k].payload,
                          inv |-> i, k |-> inv[i].k]}
                /\ inv' = [inv EXCEPT ![i] = r]
                /\ attempts' = IF r.pc = "await_publish"
                               THEN Issue(attempts, r, r.k, i) ELSE attempts
         /\ UNCHANGED <<startPc, subs, broker, nUpdates, notifQ, files, errors, loop>>

\* an awaited publish_event completes: the handler goes on to its next await
PublishCompletes ==
    /\ loop = "running"
    /\ \E i \in 1..Len(inv) :
         /\ inv[i].pc = "await_publish"
         /\ LET r == AfterPublish(inv[i])
            IN  /\ published' = published \cup
                        {[topic |-> PublishesOf(inv[i])[inv[i].k].topic,
                          payload |-> PublishesOf(inv[i])[inv[i].k].payload,
                          inv |-> i, k |-> inv[i].k]}
                /\ inv' = [inv EXCEPT ![i] = r]
                /\ attempts' = IF r.pc = "await_publish"
                               THEN Issue(attempts, r, r.k, i) ELSE attempts
    /\ UNCHANGED <<startPc, subs, broker, nUpdates, notifQ, files, errors, loop>>

\* an awaited publish_event raises
PublishFails ==
    /\ loop = "running"
    /\ \E i \in 1..Len(inv) :
         /\ inv[i].pc = "await_publish"
         /\ LET r == AfterPublishFailure(inv[i])
            IN  /\ inv' = [inv EXCEPT ![i] = r]
                /\ errors' = IF r.pc = "failed" THEN Raise(errors, i, "publish")
                             ELSE errors
                /\ attempts' = IF r.pc = "await_publish" /\ r.k # inv[i].k
                               THEN Issue(attempts, r, r.k, i) ELSE attempts
    /\ UNCHANGED <<startPc, subs, broker, nUpdates, notifQ, published, files, loop>>

\* SIGTERM: the signal handler calls LOOP.stop
Sigterm ==
    /\ loop = "running"
    /\ loop' = "stopped"
    /\ UNCHANGED <<startPc, subs, broker, nUpdates, notifQ, inv, attempts,
                   published, files, errors>>

Next ==
    \/ OnStart
    \/ BrokerUpdate
    \/ DeliverSpeed
    \/ DeliverAccel
    \/ Request
    \/ GetReturns
    \/ GetFails
    \/ PublishCompletes
    \/ PublishFails
    \/ Sigterm

Spec == Init /\ [][Next]_vars

----------------------------------------------------------------------------
(* Vocabulary of the properties *)

\* the decimal text of the values of the model, written out
ValueText ==
    (0 :> "0.0") @@ (-1 :> "-0.5") @@ (2 :> "1.0") @@ (19 :> "9.5") @@ (85 :> "42.5")

HasPrefix(str, pre) == Len(str) >= Len(pre) /\ SubSeq(str, 1, Len(pre)) = pre

Invs == 1..Len(inv)

IsRequest(i) == inv[i].upd = 0
IsSpeedChange(i) == inv[i].handler = "on_speed_change"
IsAccelChange(i) == inv[i].handler = "on_accel_change"

\* the fetch of request i has returned a value
FetchSucceeded(i) == IsRequest(i) /\ inv[i].local # NoData

\* the fetch of request i has raised
FetchFailed(i) == IsRequest(i) /\ inv[i].pc = "failed" /\ inv[i].local = NoData

\* all publish_event calls issued so far, as (invocation, position) pairs
AllAttempts == {<<i, k>> \in Invs \X (1..3) : k <= Len(attempts[i])}

\* the lines invocation i has written to file f, in file order
LinesOf(f, i) == LET ByI(ln) == ln.inv = i IN SelectSeq(files[f], ByI)

\* the lines invocation i has written, whatever the file (there is one file)
Logged(i) == LinesOf(LOG_PATH, i)

\* a log line without the invocation that wrote it
Line(name, message, i) == [name |-> name, message |-> message, inv |-> i]

\* a publish_event call without its bookkeeping
Call(a) == [topic |-> a.topic, payload |-> a.payload]

ResponseTopics ==
    {"sampleapp/getSpeed/response", "sampleapp/getLongitudinalAccel/response",
     "sampleapp/getLateralAccel/response", "sampleapp/getVerticalAccel/response"}

----------------------------------------------------------------------------
(* C1 *)

\* C1: every request whose fetch succeeded has exactly one publish_event call,
\* on the topic <request topic>/response, and on every response topic the
\* number of publish calls equals the number of requests on the paired request
\* topic whose fetch succeeded.
C1_OneResponsePerRequest ==
    /\ \A i \in Invs : FetchSucceeded(i) =>
          /\ Len(attempts[i]) = 1
          /\ attempts[i][1].topic = inv[i].topic \o "/response"
    /\ \A t \in RequestTopics :
          Cardinality({a \in AllAttempts :
                          attempts[a[1]][a[2]].topic = t \o "/response"})
          = Cardinality({i \in Invs : FetchSucceeded(i) /\ inv[i].topic = t})

\* a request has been answered and its publish has completed
C1_Witness ==
    \E i \in Invs : FetchSucceeded(i) /\ inv[i].pc = "done"
                    /\ \E p \in published : p.inv = i

(* C2 *)

\* C2: a request whose fetch raised has no publish_event call on any topic,
\* and the exception has left the handler.
C2_NoResponseOnFetchFailure ==
    \A i \in Invs : FetchFailed(i) =>
        /\ attempts[i] = << >>
        /\ \A p \in published : p.inv # i
        /\ [inv |-> i, kind |-> "get"] \in errors

\* a fetch has raised
C2_Witness == \E i \in Invs : FetchFailed(i)

(* C3 *)

\* C3: every speed notification with value V has exactly one log line, of the
\* speed logger, with V in it, and exactly one publish_event call, of
\* {"speed": V} on sampleapp/currentSpeed; so the speed lines and the speed
\* publishes are as many as the notifications handled, equal values included.
C3_SpeedLoggedAndPublishedOnce ==
    /\ \A i \in Invs : IsSpeedChange(i) =>
          LET V == inv[i].data["Vehicle.Speed"]
          IN  /\ Logged(i) = << Line("vehicle/speed",
                                     "Vehicle speed: " \o ValueText[V], i) >>
              /\ Len(attempts[i]) = 1
              /\ Call(attempts[i][1]) =
                     [topic |-> "sampleapp/currentSpeed",
                      payload |-> "{\"speed\": " \o ValueText[V] \o "}"]
    /\ LET n == Cardinality({i \in Invs : IsSpeedChange(i)})
       IN  /\ Cardinality({k \in 1..Len(files[LOG_PATH]) :
                              files[LOG_PATH][k].name = "vehicle/speed"}) = n
           /\ Cardinality({a \in AllAttempts :
                  attempts[a[1]][a[2]].topic = "sampleapp/currentSpeed"}) = n

\* two notifications with the same speed have both been handled
C3_Witness ==
    \E i, j \in Invs :
        /\ i < j /\ IsSpeedChange(i) /\ IsSpeedChange(j)
        /\ inv[i].data = inv[j].data
        /\ inv[i].pc = "done" /\ inv[j].pc = "done"

(* C4 *)

\* the three publishes of an acceleration notification with values l, a, vt
C4_Expected(l, a, vt) ==
    << [topic |-> "sampleapp/currentLongitudinalAccel",
        payload |-> "{\"longitudinal_acceleration\": " \o ValueText[l] \o "}"],
       [topic |-> "sampleapp/currentLateralAccel",
        payload |-> "{\"lateral_acceleration\": " \o ValueText[a] \o "}"],
       [topic |-> "sampleapp/currentVerticalAccel",
        payload |-> "{\"vertical_acceleration\": " \o ValueText[vt] \o "}"] >>

\* C4: an acceleration notification carrying (L, A, Vt) has exactly three log
\* lines, of the longitudinal, lateral and vertical logger in this order, each
\* with its own value; its publish_event calls are the longitudinal, lateral
\* and vertical publish in this order, each with its own value, and all three
\* of them once the handler has returned.
C4_AccelThreeInOrder ==
    \A i \in Invs :
        (IsAccelChange(i)
         /\ DOMAIN inv[i].data = {"Vehicle.Acceleration.Longitudinal",
                "Vehicle.Acceleration.Lateral", "Vehicle.Acceleration.Vertical"})
        => LET L == inv[i].data["Vehicle.Acceleration.Longitudinal"]
               A == inv[i].data["Vehicle.Acceleration.Lateral"]
               Vt == inv[i].data["Vehicle.Acceleration.Vertical"]
               n == Len(attempts[i])
           IN  /\ Logged(i) =
                   << Line("vehicle/acceleration_longitudinal",
                        "Vehicle longitudinal acceleration: " \o ValueText[L], i),
                      Line("vehicle/acceleration_lateral",
                        "Vehicle lateral acceleration: " \o ValueText[A], i),
                      Line("vehicle/acceleration_vertical",
                        "Vehicle vertical acceleration: " \o ValueText[Vt], i) >>
               /\ n \in 1..3
               /\ \A k \in 1..n : Call(attempts[i][k]) = C4_Expected(L, A, Vt)[k]
               /\ inv[i].pc = "done" => n = 3

\* an acceleration notification carrying all three axes has been handled to
\* the end
C4_Witness ==
    \E i \in Invs :
        /\ IsAccelChange(i) /\ inv[i].pc = "done"
        /\ DOMAIN inv[i].data = AccelSignals
        /\ Cardinality({p \in published : p.inv = i}) = 3

(* C5 *)

\* C5: for every acceleration notification whose handler got to its first
\* publish, all three publish_event calls are issued, whichever of them fail.
C5_AllThreeAttempted ==
    \A i \in Invs :
        (IsAccelChange(i) /\ attempts[i] # << >> /\ inv[i].pc \in {"done", "failed"})
        => Len(attempts[i]) = 3

(* C6 *)

\* C6: every message issued or published on one of the four response topics
\* has result.status 0.
C6_StatusAlwaysZero ==
    /\ \A a \in AllAttempts :
          attempts[a[1]][a[2]].topic \in ResponseTopics
          => HasPrefix(attempts[a[1]][a[2]].payload, "{\"result\": {\"status\": 0, ")
    /\ \A p \in published :
          p.topic \in ResponseTopics
          => HasPrefix(p.payload, "{\"result\": {\"status\": 0, ")

\* a response has been published in a run with a failure, and a response
\* carries a negative value
C6_Witness ==
    /\ errors # {}
    /\ \E p \in published : p.topic \in ResponseTopics
    /\ \E i \in Invs : FetchSucceeded(i) /\ \E s \in DOMAIN inv[i].local :
                          inv[i].local[s] < 0

(* C8 (its table is used by C7 as well) *)

\* the table of the spec: request topic -> response topic, message text and
\* data point
C8_Table ==
    [t \in {"sampleapp/getSpeed", "sampleapp/getLongitudinalAccel",
            "sampleapp/getLateralAccel", "sampleapp/getVerticalAccel"} |->
        CASE t = "sampleapp/getSpeed" ->
                [response |-> "sampleapp/getSpeed/response",
                 text |-> "Speed = ", signal |-> "Vehicle.Speed"]
          [] t = "sampleapp/getLongitudinalAccel" ->
                [response |-> "sampleapp/getLongitudinalAccel/response",
                 text |-> "Longi Acceleration = ",
                 signal |-> "Vehicle.Acceleration.Longitudinal"]
          [] t = "sampleapp/getLateralAccel" ->
                [response |-> "sampleapp/getLateralAccel/response",
                 text |-> "LAT Acceleration = ",
                 signal |-> "Vehicle.Acceleration.Lateral"]
          [] OTHER ->
                [response |-> "sampleapp/getVerticalAccel/response",
                 text |-> "Vertical Acceleration = ",
                 signal |-> "Vehicle.Acceleration.Vertical"]]

\* the response the table gives for a request on topic t and the value v
C8_Response(t, v) ==
    [topic |-> C8_Table[t].response,
     payload |-> "{\"result\": {\"status\": 0, \"message\": \""
                 \o C8_Table[t].text \o ValueText[v] \o "\"}}"]

\* C8: a request on one of the four request topics is answered on the topic
\* and with the message of the table, the value being the one fetched from
\* the data point bound to the topic, in a payload {result: {status: 0,
\* message}}.
C8_FixedTable ==
    /\ RequestTopics = DOMAIN C8_Table
    /\ \A i \in Invs : FetchSucceeded(i) =>
          /\ DOMAIN inv[i].local = {C8_Table[inv[i].topic].signal}
          /\ Len(attempts[i]) >= 1
          /\ Call(attempts[i][1]) =
                C8_Response(inv[i].topic,
                            inv[i].local[C8_Table[inv[i].topic].signal])

\* a getSpeed request at speed 42.5 has been answered "Speed = 42.5"
C8_Witness ==
    \E p \in published :
        /\ inv[p.inv].topic = "sampleapp/getSpeed"
        /\ broker["Vehicle.Speed"] = 85
        /\ p.topic = "sampleapp/getSpeed/response"
        /\ p.payload = "{\"result\": {\"status\": 0, \"message\": \"Speed = 42.5\"}}"

(* C7 *)

\* C7: the step in which the fetch of a request returns issues the response
\* with the value the broker holds for the bound data point at that step, and
\* nothing later (a notification handled in between included) changes the
\* response issued or published.
C7_ResponseCarriesFetchedValue ==
    [][\A i \in Invs : IsRequest(i) =>
          /\ (inv[i].pc = "await_get" /\ inv'[i].pc \notin {"await_get", "failed"})
             => /\ Len(attempts'[i]) = 1
                /\ Call(attempts'[i][1]) =
                      C8_Response(inv[i].topic, broker[C8_Table[inv[i].topic].signal])
          /\ attempts[i] # << >> => attempts'[i] = attempts[i]
          /\ \A p \in published' : p.inv = i => Call(p) = Call(attempts'[i][1])
      ]_vars

\* a speed notification with another value than the fetched one has been
\* handled while a getSpeed request awaited its response publish, and a
\* request has been answered before any notification was handled
C7_Witness ==
    \E i \in Invs :
        /\ IsRequest(i) /\ inv[i].topic = "sampleapp/getSpeed"
        /\ inv[i].pc = "await_publish"
        /\ \E j \in Invs : /\ j > i /\ IsSpeedChange(j)
                           /\ inv[j].data["Vehicle.Speed"] # inv[i].local["Vehicle.Speed"]

(* C9 *)

\* C9: two requests on the same topic with different payloads, for which the
\* broker returned the same value, run the same handler and issue the same
\* publish_event calls.
C9_PayloadIgnored ==
    \A i, j \in Invs :
        (/\ IsRequest(i) /\ IsRequest(j)
         /\ inv[i].topic = inv[j].topic
         /\ inv[i].payload # inv[j].payload
         /\ FetchSucceeded(i) /\ FetchSucceeded(j)
         /\ inv[i].local = inv[j].local)
        => /\ inv[i].handler = inv[j].handler
           /\ Len(attempts[i]) = Len(attempts[j])
           /\ \A k \in 1..Len(attempts[i]) :
                 Call(attempts[i][k]) = Call(attempts[j][k])

\* two requests on one topic with different payloads have both been answered
C9_Witness ==
    \E i, j \in Invs :
        /\ IsRequest(i) /\ IsRequest(j)
        /\ inv[i].topic = inv[j].topic /\ inv[i].payload # inv[j].payload
        /\ inv[i].local = inv[j].local
        /\ inv[i].pc = "done" /\ inv[j].pc = "done"

(* C10 *)

\* C10: once on_start has returned there is one acceleration subscription and
\* one speed subscription, and a broker update of the acceleration axes is
\* handled by one invocation of the acceleration handler.
C10_SingleAccelSubscription ==
    startPc = 4 =>
        /\ Cardinality({k \in 1..Len(subs) : subs[k].callback = "on_accel_change"}) = 1
        /\ Cardinality({k \in 1..Len(subs) : subs[k].callback = "on_speed_change"}) = 1
        /\ \A u \in 1..nUpdates :
              Cardinality({i \in Invs : IsAccelChange(i) /\ inv[i].upd = u}) <= 1

(* C11 *)

\* the four signal loggers
Loggers == {SpeedLogger, LongiAccelLogger, LatAccelLogger, VerAccelLogger}

\* C11: every category has a log file of its own: the file a logger writes to
\* holds no line of another logger.
C11_SeparateSinks ==
    \A a \in Loggers : \A b \in Loggers \ {a} :
        \A k \in 1..Len(files[b.filename]) : files[b.filename][k].name # a.name

(* C12 *)

\* invocation i takes part in the step: it starts, moves, issues a publish,
\* has a publish completed or writes a line
C12_Moves(i) ==
    \/ i > Len(inv)
    \/ inv'[i] # inv[i]
    \/ attempts'[i] # attempts[i]
    \/ \E p \in published' \ published : p.inv = i
    \/ \E k \in (Len(files[LOG_PATH]) + 1)..Len(files'[LOG_PATH]) :
          files'[LOG_PATH][k].inv = i

C13_SequentialPublishes ==
    \A i \in Invs : IsAccelChange(i) =>
        \A k \in 2..Len(attempts[i]) :
            \E p \in published : p.inv = i /\ p.k = k - 1
                                 /\ Call(p) = Call(attempts[i][k - 1])

\* the lateral publish is pending after the longitudinal one has completed,
\* the vertical one not issued
C13_Witness ==
    \E i \in Invs :
        /\ IsAccelChange(i) /\ inv[i].pc = "await_publish"
        /\ Len(attempts[i]) = 2
        /\ attempts[i][2].topic = "sampleapp/currentLateralAccel"
        /\ \E p \in published : p.inv = i /\ p.topic = "sampleapp/currentLongitudinalAccel"

(* C14 *)

\* the lines of invocation i as the logger calls made them
C14_Text(i) ==
    [k \in 1..Len(Logged(i)) |->
        [name |-> Logged(i)[k].name, message |-> Logged(i)[k].message]]

\* invocations i and j run the same handler on the same input: the same
\* notification content and the same values read or fetched
C14_SameInput(i, j) ==
    /\ inv[i].handler = inv[j].handler
    /\ inv[i].data = inv[j].data
    /\ inv[i].local = inv[j].local
    /\ (inv[i].pc = "await_get") = (inv[j].pc = "await_get")

\* C14: what an invocation logs and publishes is determined by its own
\* notification or fetch result: two invocations of a handler with the same
\* input write the same lines and make the same publish calls as far as both
\* have come, whatever ran before or in between.
C14_OutputsFromOwnInput ==
    \A i \in Invs : \A j \in Invs :
        (i < j /\ C14_SameInput(i, j)) =>
            /\ C14_Text(i) = C14_Text(j)
            /\ \A k \in 1..Len(attempts[i]) :
                  k <= Len(attempts[j]) => Call(attempts[i][k]) = Call(attempts[j][k])

\* two invocations of one handler with the same input have both published,
\* the second after the first had run
C14_Witness ==
    \E i \in Invs : \E j \in Invs :
        /\ i < j /\ C14_SameInput(i, j)
        /\ attempts[i] # << >> /\ attempts[j] # << >>
        /\ Logged(i) # << >>

(* C15 *)

\* C15: an acceleration notification is handled from the axes it carries: no
\* read of an absent axis raises, and the handler holds no value for an axis
\* the notification did not carry.
C15_ReadsOnlyCarried ==
    \A i \in Invs : IsAccelChange(i) =>
        /\ [inv |-> i, kind |-> "read"] \notin errors
        /\ inv[i].local # NoData => \A s \in AccelSignals :
              s \notin DOMAIN inv[i].data => s \notin DOMAIN inv[i].local

(* C16 *)

\* C16: no invocation calls publish_event twice for one topic, and a publish
\* that was issued and has neither completed nor is pending has failed: it is
\* the invocation's last publish, the invocation has ended in failure and
\* the exception has left the handler.
C16_NoRetryNoCatch ==
    \A i \in Invs :
        /\ \A k \in 1..Len(attempts[i]) : \A m \in 1..Len(attempts[i]) :
              attempts[i][k].topic = attempts[i][m].topic => k = m
        /\ \A k \in 1..Len(attempts[i]) :
              (/\ \A p \in published : ~(p.inv = i /\ p.k = k)
               /\ ~(inv[i].pc = "await_publish" /\ inv[i].k = k))
              => /\ k = Len(attempts[i])
                 /\ inv[i].pc = "failed"
                 /\ [inv |-> i, kind |-> "publish"] \in errors

\* a publish has failed: its exception is recorded and nothing was published
\* after it
C16_Witness ==
    \E i \in Invs :
        /\ inv[i].pc = "failed" /\ attempts[i] # << >>
        /\ [inv |-> i, kind |-> "publish"] \in errors
        /\ \A p \in published : ~(p.inv = i /\ p.k = Len(attempts[i]))

(* C17 *)

\* C17: SIGTERM stops the loop, and a stopped loop stays stopped and runs no
\* handler step: no invocation starts or moves, nothing is published, logged
\* or raised, and the step that stops the loop touches no invocation.
C17_StoppedLoopRunsNothing ==
    [][/\ loop = "stopped" =>
            /\ loop' = "stopped"
            /\ UNCHANGED <<inv, attempts, published, files, errors, notifQ>>
       /\ loop' # loop =>
            /\ loop' = "stopped"
            /\ UNCHANGED <<inv, attempts, published, files, errors, notifQ>>]_vars

\* the loop was stopped while an invocation was suspended at an await and a
\* notification was still queued: both are left as they are
C17_Witness ==
    /\ loop = "stopped"
    /\ \E i \in Invs : inv[i].pc \in {"await_get", "await_publish"}
    /\ notifQ # << >>

(* C19 *)

\* C19: when a notification handler has issued a publish, its log lines are
\* in the file: one speed line, or the three acceleration lines; they stay
\* there whether the publish is pending, has completed or has failed.
C19_LoggedBeforePublish ==
    \A i \in Invs :
        /\ (IsSpeedChange(i) /\ attempts[i] # << >>) =>
              /\ Len(Logged(i)) = 1
              /\ Logged(i)[1].name = "vehicle/speed"
        /\ (IsAccelChange(i) /\ attempts[i] # << >>) =>
              /\ Len(Logged(i)) = 3
              /\ Logged(i)[1].name = "vehicle/acceleration_longitudinal"
              /\ Logged(i)[2].name = "vehicle/acceleration_lateral"
              /\ Logged(i)[3].name = "vehicle/acceleration_vertical"

\* the first acceleration publish has failed: three lines are logged and no
\* acceleration publish of the invocation has completed
C19_Witness ==
    \E i \in Invs :
        /\ IsAccelChange(i) /\ inv[i].pc = "failed"
        /\ Len(attempts[i]) = 1
        /\ [inv |-> i, kind |-> "publish"] \in errors
        /\ Len(Logged(i)) = 3
        /\ \A p \in published : p.inv # i

(* C20 *)

C20_AccelLoggerNames ==
    {"vehicle/acceleration_longitudinal", "vehicle/acceleration_lateral",
     "vehicle/acceleration_vertical"}

C20_AccelTopics ==
    {"sampleapp/currentLongitudinalAccel", "sampleapp/currentLateralAccel",
     "sampleapp/currentVerticalAccel"}

\* the topics invocation i may publish on
C20_OwnTopics(i) ==
    IF IsSpeedChange(i) THEN {"sampleapp/currentSpeed"}
    ELSE IF IsAccelChange(i) THEN C20_AccelTopics
    ELSE {inv[i].topic \o "/response"}

\* the loggers invocation i may write to
C20_OwnLoggers(i) ==
    IF IsSpeedChange(i) THEN {"vehicle/speed"}
    ELSE IF IsAccelChange(i) THEN C20_AccelLoggerNames
    ELSE {}

\* C20: an invocation writes only to the loggers of its handler and publishes
\* only on the topics of its handler (a request handler: no signal logger,
\* its own response topic); so every message is on one of the eight fixed
\* topics and no message on a current* topic comes from a request.
C20_OwnOutputsOnly ==
    /\ \A i \in Invs :
          /\ \A k \in 1..Len(attempts[i]) : attempts[i][k].topic \in C20_OwnTopics(i)
          /\ \A k \in 1..Len(Logged(i)) : Logged(i)[k].name \in C20_OwnLoggers(i)
    /\ \A p \in published :
          /\ p.topic \in C20_OwnTopics(p.inv)
          /\ p.topic \in ResponseTopics \cup C20_AccelTopics \cup {"sampleapp/currentSpeed"}
    /\ \A k \in 1..Len(files[LOG_PATH]) : files[LOG_PATH][k].inv \in Invs

\* a request has been answered while a notification handler's message is
\* published too
C20_Witness ==
    \E i \in Invs : \E j \in Invs :
        /\ IsRequest(i) /\ ~IsRequest(j)
        /\ \E p \in published : p.inv = i /\ p.topic \in ResponseTopics
        /\ \E p \in published : p.inv = j /\ p.topic \notin ResponseTopics
        /\ Logged(j) # << >> /\ Logged(i) = << >>

====
